---- MODULE Spec2Model ----
(***************************************************************************)
(* A model of the two batch scripts of the dota-analysis repository:       *)
(*   - the Match Importer (src/main.py): match history -> dotamatches,     *)
(*     per-match detail -> dotamatchesinfo, hero catalog -> heroesinfo;    *)
(*   - the Role Scraper (src/webscrape.py): th/td cells of the wiki page   *)
(*     -> hero x role matrix -> dotaheroroles.csv.                         *)
(* Python dicts are insertion-ordered (Python 3.7+), so every dict is a    *)
(* sequence of <<key, value>> pairs in insertion order.                    *)
(***************************************************************************)
EXTENDS Integers, Sequences, FiniteSets, TLC

\* ------------------------------------------------------------------ bounds
\* Longest response of one match-history query.
MaxMatches == 1
\* Most players one side of a match-detail payload can have.
MaxSide == 6
\* Longest hero catalog.
MaxCatalog == 2
\* Most header cells on the wiki page.
MaxHeaders == 3

\* ------------------------------------------------------- program constants
\* heroidlist[0] .. heroidlist[4] are inserted: a teammates row has 5 heroes.
TeamSize == 5
\* wintype = [1, 0]: the wins are queried first, then the losses.
wintype == <<1, 0>>

\* ------------------------------------------------------------ input domains
MatchIds == {1, 2}

\* All sequences over S of length at most n.
BSeq(S, n) == UNION {[1..k -> S] : k \in 0..n}

\* A match object of the match-history endpoint. Only the two fields the
\* script computes with are kept; the other fourteen are copied verbatim
\* into the row exactly as match_id and radiant_win are.
MatchObjects == [match_id : MatchIds, radiant_win : BOOLEAN]

MatchResponses == BSeq(MatchObjects, MaxMatches)

Min(a, b) == IF a < b THEN a ELSE b

\* The players list of a match-detail payload of match m with nRad radiant
\* and nDire dire players: the two sides alternate while both have players
\* left, the rest of the larger side follows. Hero ids are distinct per
\* match and position.
Players(m, nRad, nDire) ==
    [p \in 1..(nRad + nDire) |->
        [isRadiant |-> IF p <= 2 * Min(nRad, nDire) THEN p % 2 = 1 ELSE nRad > nDire,
         hero_id   |-> 100 * m + p]]

\* A side has one player too few (a leaver), the expected five, or more.
SideSizes == (TeamSize - 1)..MaxSide

\* The payloads of match m: at least one side has the expected five players.
DetailResponses(m) ==
    {Players(m, a, b) : a \in SideSizes, b \in {TeamSize}}
        \cup {Players(m, a, b) : a \in {TeamSize}, b \in SideSizes}

CatalogEntries == {[id |-> 1, name |-> "antimage"], [id |-> 2, name |-> "axe"]}

CatalogResponses == BSeq(CatalogEntries, MaxCatalog)

\* A text is a sequence of tokens: a word, a blank or the marker glyph.
Glyph == "#"

Blank == " "

\* Role names; none is the name "Hero" of the matrix's first column.
RoleNames == {"Carry", "Support"}

GlyphCounts == {1, 3}

\* The text of a header cell: the role name, a blank, the marker glyphs.
HeaderText(r, n) == <<r, Blank>> \o [i \in 1..n |-> Glyph]

HeaderTexts == {HeaderText(r, n) : r \in RoleNames, n \in GlyphCounts}

\* The titles of the hyperlinks of the data cell that follows a header cell.
LinkLists == {<<>>, << <<"Hero A">> >>, << <<"Hero B">> >>,
              << <<"Hero A">>, <<"Hero B">> >>}

\* A header cell with the links of soup's next td after it.
HeaderCells == [text : HeaderTexts, links : LinkLists]

Pages == BSeq(HeaderCells, MaxHeaders)

VARIABLES
    \* ---- Match Importer (src/main.py)
    pc,               \* position of the script
    rerun,            \* TRUE once the script has been started a second time
    api,              \* what the remote API has answered so far (its data is fixed)
    requests,         \* the requests issued by this run, in order
    winpos,           \* position in wintype of the current query
    matches,          \* the parsed response of the current history query
    mpos,             \* position in matches of the next match
    matchdict,        \* match_id -> side, insertion ordered
    dpos,             \* position in matchdict.items() of the current item
    matchinfo,        \* players of the last match-detail payload
    heroidlist,
    heroesinfo,       \* the parsed hero catalog
    hpos,             \* position in heroesinfo of the next hero
    dotamatches,      \* table dotamatches
    dotamatchesinfo,  \* table dotamatchesinfo
    tblheroesinfo,    \* table heroesinfo
    \* ---- Role Scraper (src/webscrape.py)
    spc,              \* position of the script
    page,             \* soup.find_all("th"), each cell with its find_next("td") links
    thpos,            \* position in page of the next header cell
    heroattributes,   \* role -> level -> hero names, insertion ordered
    dfheroattributes, \* the rows, each a dict "Hero" / role -> value
    totalrolelist,
    csv,              \* the lines of dotaheroroles.csv, <<>> while there is no file
    prevcsv           \* the file as the previous run left it, {} in the first run

importerVars == <<pc, rerun, api, requests, winpos, matches, mpos, matchdict, dpos,
                  matchinfo, heroidlist, heroesinfo, hpos,
                  dotamatches, dotamatchesinfo, tblheroesinfo>>

scraperVars == <<spc, page, thpos, heroattributes, dfheroattributes, totalrolelist,
                 csv, prevcsv>>

vars == <<importerVars, scraperVars>>

\* ------------------------------------------------------------------ helpers
\* Python's int(bool) in winnumber + match["radiant_win"].
BoolInt(b) == IF b THEN 1 ELSE 0

\* A derivation with the two sides swapped.
SideSwapped(winnumber, radiant_win) ==
    IF winnumber + BoolInt(radiant_win) = 1 THEN TRUE ELSE FALSE

\* A derivation that looks at the winning side only.
SideOfWinner(winnumber, radiant_win) == radiant_win

\* The side stored in matchdict: False when exactly one of "I won" and
\* "radiant won" holds, True otherwise.
Side(winnumber, radiant_win) ==
    IF winnumber + BoolInt(radiant_win) = 1 THEN FALSE ELSE TRUE

DictHas(d, k) == \E i \in 1..Len(d) : d[i][1] = k

DictGet(d, k) == d[CHOOSE i \in 1..Len(d) : d[i][1] = k][2]

\* A list of pairs that keeps every assignment instead of one entry per key.
DictSetAppend(d, k, v) == Append(d, <<k, v>>)

\* d[k] = v on an insertion-ordered dict: an existing key keeps its place.
DictSet(d, k, v) ==
    IF DictHas(d, k)
    THEN [i \in 1..Len(d) |-> IF d[i][1] = k THEN <<k, v>> ELSE d[i]]
    ELSE Append(d, <<k, v>>)

\* The row of dotamatches: the win filter of the query, then the match's fields.
MatchRow(winnumber, match) ==
    [win |-> winnumber, match_id |-> match.match_id, radiant_win |-> match.radiant_win]

\* The loop over matchinfo["players"]: heroidlist += [hero_id] for every
\* player with player["isRadiant"] is team.
RECURSIVE CollectHeroes(_, _, _)
CollectHeroes(players, team, acc) ==
    IF players = <<>> THEN acc
    ELSE CollectHeroes(Tail(players), team,
                       IF Head(players).isRadiant = team
                       THEN acc \o <<Head(players).hero_id>>
                       ELSE acc)

\* heroidlist[4] raises IndexError when the list has fewer than five entries.
IndexError(list) == Len(list) < TeamSize

\* The row of dotamatchesinfo: mID and heroidlist[0] .. heroidlist[4].
InfoRow(mID, list) == <<mID, list[1], list[2], list[3], list[4], list[5]>>

\* The row of heroesinfo: a verbatim copy of the catalog entry's fields.
HeroRow(hero) == [id |-> hero.id, name |-> hero.name]

\* An exception that is swallowed: the script goes on after the loop.
RaiseSwallowed(at) == "getheroes"

\* An uncaught exception ends the script where it is raised.
Raise(at) == "failed"

\* The loop over matchdict nested in the loop over wintype.
AfterMatchesNested(wp, dict) ==
    IF dict # <<>> THEN "detail"
    ELSE IF wp < Len(wintype) THEN "getmatches" ELSE "getheroes"

\* Where the script goes once the matches of query winpos are all processed:
\* the next query, then the loop over matchdict, which is skipped when empty.
AfterMatches(wp, dict) ==
    IF wp < Len(wintype) THEN "getmatches"
    ELSE IF dict = <<>> THEN "getheroes" ELSE "detail"

\* What the API answers: anything the first time, the same data afterwards.
Answers(known, all) == IF known = {} THEN all ELSE known

\* ----------------------------------------------------------------- importer
InitImporter ==
    /\ pc = "getmatches"
    /\ rerun = FALSE
    /\ api = [matches |-> [w \in {0, 1} |-> {}],
              detail  |-> [m \in MatchIds |-> {}],
              heroes  |-> {}]
    /\ requests = <<>>
    /\ winpos = 1
    /\ matches = <<>>
    /\ mpos = 1
    /\ matchdict = <<>>
    /\ dpos = 1
    /\ matchinfo = <<>>
    /\ heroidlist = <<>>
    /\ heroesinfo = <<>>
    /\ hpos = 1
    /\ dotamatches = <<>>
    /\ dotamatchesinfo = <<>>
    /\ tblheroesinfo = <<>>
    /\ spc = "off"
    /\ page = <<>>
    /\ thpos = 1
    /\ heroattributes = <<>>
    /\ dfheroattributes = <<>>
    /\ totalrolelist = <<>>
    /\ csv = <<>>
    /\ prevcsv = {}

\* session.get(playermatcheslink, params={"win": winnumber}) and json.loads.
GetMatches ==
    /\ pc = "getmatches"
    /\ \E resp \in Answers(api.matches[wintype[winpos]], MatchResponses) :
        /\ api' = [api EXCEPT !.matches[wintype[winpos]] = {resp}]
        /\ requests' = Append(requests, <<"matches", wintype[winpos]>>)
        /\ matches' = resp
        /\ mpos' = 1
        /\ IF resp = <<>>
           THEN /\ pc' = AfterMatches(winpos, matchdict)
                /\ winpos' = IF winpos < Len(wintype) THEN winpos + 1 ELSE winpos
           ELSE /\ pc' = "match"
                /\ winpos' = winpos
    /\ UNCHANGED <<rerun, matchdict, dpos, matchinfo, heroidlist, heroesinfo, hpos,
                   dotamatches, dotamatchesinfo, tblheroesinfo>>
    /\ UNCHANGED scraperVars

\* One iteration of "for match in matches": insert, commit, record the side.
InsertMatch ==
    /\ pc = "match"
    /\ LET match == matches[mpos]
           winnumber == wintype[winpos]
           dict == DictSet(matchdict, match.match_id, Side(winnumber, match.radiant_win))
       IN /\ dotamatches' = Append(dotamatches, MatchRow(winnumber, match))
          /\ matchdict' = dict
          /\ mpos' = mpos + 1
          /\ IF mpos < Len(matches)
             THEN /\ pc' = "match"
                  /\ winpos' = winpos
             ELSE /\ pc' = AfterMatches(winpos, dict)
                  /\ winpos' = IF winpos < Len(wintype) THEN winpos + 1 ELSE winpos
    /\ UNCHANGED <<rerun, api, requests, matches, dpos, matchinfo, heroidlist,
                   heroesinfo, hpos, dotamatchesinfo, tblheroesinfo>>
    /\ UNCHANGED scraperVars

\* One iteration of "for mID, team in matchdict.items()": request the detail,
\* collect the heroes of the side, insert and commit, reset heroidlist.
MatchDetail ==
    /\ pc = "detail"
    /\ LET mID == matchdict[dpos][1]
           team == matchdict[dpos][2]
       IN \E resp \in Answers(api.detail[mID], DetailResponses(mID)) :
           LET list == CollectHeroes(resp, team, heroidlist)
           IN /\ api' = [api EXCEPT !.detail[mID] = {resp}]
              /\ requests' = Append(requests, <<"detail", mID>>)
              /\ matchinfo' = resp
              /\ IF IndexError(list)
                 THEN /\ pc' = Raise("detail")
                      /\ heroidlist' = list
                      /\ UNCHANGED <<dotamatchesinfo, dpos>>
                 ELSE /\ dotamatchesinfo' = Append(dotamatchesinfo, InfoRow(mID, list))
                      /\ heroidlist' = <<>>
                      /\ dpos' = dpos + 1
                      /\ pc' = IF dpos < Len(matchdict) THEN "detail" ELSE "getheroes"
    /\ UNCHANGED <<rerun, winpos, matches, mpos, matchdict, heroesinfo, hpos,
                   dotamatches, tblheroesinfo>>
    /\ UNCHANGED scraperVars

\* session.get(heroesinfolink) and json.loads.
GetHeroes ==
    /\ pc = "getheroes"
    /\ \E resp \in Answers(api.heroes, CatalogResponses) :
        /\ api' = [api EXCEPT !.heroes = {resp}]
        /\ requests' = Append(requests, <<"heroes", 0>>)
        /\ heroesinfo' = resp
        /\ hpos' = 1
        /\ pc' = IF resp = <<>> THEN "done" ELSE "hero"
    /\ UNCHANGED <<rerun, winpos, matches, mpos, matchdict, dpos, matchinfo, heroidlist,
                   dotamatches, dotamatchesinfo, tblheroesinfo>>
    /\ UNCHANGED scraperVars

\* One iteration of "for hero in heroesinfo": insert and commit.
InsertHero ==
    /\ pc = "hero"
    /\ tblheroesinfo' = Append(tblheroesinfo, HeroRow(heroesinfo[hpos]))
    /\ hpos' = hpos + 1
    /\ pc' = IF hpos < Len(heroesinfo) THEN "hero" ELSE "done"
    /\ UNCHANGED <<rerun, api, requests, winpos, matches, mpos, matchdict, dpos,
                   matchinfo, heroidlist, heroesinfo, dotamatches, dotamatchesinfo>>
    /\ UNCHANGED scraperVars

\* The script is started again after a complete run: its module-level
\* variables start afresh, the database keeps its rows, the API its data.
Rerun ==
    /\ pc = "done"
    /\ ~rerun
    /\ rerun' = TRUE
    /\ pc' = "getmatches"
    /\ requests' = <<>>
    /\ winpos' = 1
    /\ matches' = <<>>
    /\ mpos' = 1
    /\ matchdict' = <<>>
    /\ dpos' = 1
    /\ matchinfo' = <<>>
    /\ heroidlist' = <<>>
    /\ heroesinfo' = <<>>
    /\ hpos' = 1
    /\ UNCHANGED <<api, dotamatches, dotamatchesinfo, tblheroesinfo>>
    /\ UNCHANGED scraperVars

Next == GetMatches \/ InsertMatch \/ MatchDetail \/ GetHeroes \/ InsertHero

Spec == InitImporter /\ [][Next]_vars

NextRerun == Next \/ Rerun

SpecRerun == InitImporter /\ [][NextRerun]_vars

\* ------------------------------------------------- properties of the importer
\* The one answer the API has given to a request.
Answer(known) == CHOOSE r \in known : TRUE

\* The rows of dotamatches of which no later row has the same match_id: the
\* match objects whose side is the one matchdict holds.
LastRows == {i \in 1..Len(dotamatches) :
                \A j \in (i + 1)..Len(dotamatches) :
                    dotamatches[j].match_id # dotamatches[i].match_id}

\* The hero ids of the players of a payload on the given side, in order.
SameSide(players, side) ==
    LET on == SelectSeq(players, LAMBDA pl : pl.isRadiant = side)
    IN [i \in 1..Len(on) |-> on[i].hero_id]

\* The five hero ids of a row of dotamatchesinfo.
RowHeroes(row) == SubSeq(row, 2, Len(row))

\* The rows one run has to add to dotamatches: the matches of the win query
\* tagged 1, then those of the loss query tagged 0.
Tagged(w) ==
    LET resp == Answer(api.matches[w])
    IN [i \in 1..Len(resp) |->
           [win |-> w, match_id |-> resp[i].match_id, radiant_win |-> resp[i].radiant_win]]

ExpectedMatchRows == Tagged(1) \o Tagged(0)

IsPrefix(s, t) == Len(s) <= Len(t) /\ SubSeq(t, 1, Len(s)) = s

\* C1: for every fetched match, with outcome value w and radiant-won flag r,
\* the side recorded for its match identifier is: w=1,r=true => true;
\* w=1,r=false => false; w=0,r=true => false; w=0,r=false => true.
C1_SideTable ==
    \A i \in LastRows :
        LET row == dotamatches[i]
        IN /\ DictHas(matchdict, row.match_id)
           /\ (row.win = 1 /\ row.radiant_win = TRUE
                  => DictGet(matchdict, row.match_id) = TRUE)
           /\ (row.win = 1 /\ row.radiant_win = FALSE
                  => DictGet(matchdict, row.match_id) = FALSE)
           /\ (row.win = 0 /\ row.radiant_win = TRUE
                  => DictGet(matchdict, row.match_id) = FALSE)
           /\ (row.win = 0 /\ row.radiant_win = FALSE
                  => DictGet(matchdict, row.match_id) = TRUE)

\* A lost match that radiant won is recorded as played on dire, next to a won
\* match that radiant won, recorded as played on radiant.
C1_Witness ==
    /\ pc = "done"
    /\ \E i, j \in LastRows :
        /\ dotamatches[i].win = 0 /\ dotamatches[i].radiant_win = TRUE
        /\ DictGet(matchdict, dotamatches[i].match_id) = FALSE
        /\ dotamatches[j].win = 1 /\ dotamatches[j].radiant_win = TRUE
        /\ DictGet(matchdict, dotamatches[j].match_id) = TRUE

\* C2 as stated: the side recorded for a match is true (radiant) if and only
\* if outcome value + radiant-won flag is odd.
C2_SideIffOdd ==
    \A i \in LastRows :
        LET row == dotamatches[i]
        IN DictGet(matchdict, row.match_id)
               <=> (row.win + BoolInt(row.radiant_win)) % 2 = 1

\* C2 as amended: the side recorded for a match is true (radiant) if and
\* only if outcome value + radiant-won flag is even, that is, "player won"
\* and "radiant won" are both true or both false.
C2_SideIffEven ==
    \A i \in LastRows :
        LET row == dotamatches[i]
        IN /\ DictHas(matchdict, row.match_id)
           /\ DictGet(matchdict, row.match_id)
                  <=> (row.win + BoolInt(row.radiant_win)) % 2 = 0

\* Both parities are met: a side of true with the sum 0, a side of false
\* with the sum 1.
C2_Witness ==
    \E i, j \in LastRows :
        /\ dotamatches[i].win + BoolInt(dotamatches[i].radiant_win) = 0
        /\ DictGet(matchdict, dotamatches[i].match_id) = TRUE
        /\ dotamatches[j].win + BoolInt(dotamatches[j].radiant_win) = 1
        /\ DictGet(matchdict, dotamatches[j].match_id) = FALSE

\* C3: every persisted Match Teammates record has exactly five hero
\* identifiers, and they are the hero identifiers of every player of that
\* match's detail on the derived side, in encounter order: none from another
\* match, no same-side player left out.
C3_TeammatesAreSameSide ==
    \A i \in 1..Len(dotamatchesinfo) :
        LET row == dotamatchesinfo[i]
        IN /\ Len(RowHeroes(row)) = TeamSize
           /\ RowHeroes(row) =
                  SameSide(Answer(api.detail[row[1]]), DictGet(matchdict, row[1]))

\* The matches whose detail was requested and has fewer than five players
\* on the derived side.
ShortMatches ==
    {k \in 1..Len(matchdict) :
        /\ \E q \in 1..Len(requests) : requests[q] = <<"detail", matchdict[k][1]>>
        /\ Len(SameSide(Answer(api.detail[matchdict[k][1]]), matchdict[k][2])) < TeamSize}

\* C4: when the detail of a match has fewer than five players on the derived
\* side, the run aborts at that match: no teammates row for it or for a later
\* match, no detail request for a later match, no catalog request and no
\* catalog row, and the rows committed before are all there.
C4_FailFast ==
    \A k \in ShortMatches :
        /\ pc = "failed"
        /\ dpos = k
        /\ \A i \in 1..Len(dotamatchesinfo), later \in k..Len(matchdict) :
               dotamatchesinfo[i][1] # matchdict[later][1]
        /\ requests = <<<<"matches", 1>>, <<"matches", 0>>>>
                          \o [d \in 1..k |-> <<"detail", matchdict[d][1]>>]
        /\ api.heroes = {}
        /\ tblheroesinfo = <<>>
        /\ dotamatches = ExpectedMatchRows
        /\ Len(dotamatchesinfo) = k - 1
        /\ \A d \in 1..(k - 1) :
               dotamatchesinfo[d] =
                   InfoRow(matchdict[d][1],
                           SameSide(Answer(api.detail[matchdict[d][1]]), matchdict[d][2]))

\* The second of two matches is the short one: the first one's row is kept.
C4_Witness ==
    /\ ShortMatches = {2}
    /\ Len(dotamatchesinfo) = 1
    /\ Len(dotamatches) = 2

\* C5: every teammates row carries a match identifier of a persisted match
\* row; a detail request comes only after both history queries, win then
\* loss, are fully processed; a catalog row comes only after the teammates
\* row of every distinct match identifier.
C5_Ordering ==
    /\ \A i \in 1..Len(dotamatchesinfo) :
           \E j \in 1..Len(dotamatches) :
               dotamatches[j].match_id = dotamatchesinfo[i][1]
    /\ \A q \in 1..Len(requests) :
           requests[q][1] = "detail" =>
               /\ q > 2
               /\ requests[1] = <<"matches", 1>>
               /\ requests[2] = <<"matches", 0>>
               /\ dotamatches = ExpectedMatchRows
    /\ (tblheroesinfo # <<>> \/ api.heroes # {}) =>
           \A j \in 1..Len(dotamatches) :
               \E i \in 1..Len(dotamatchesinfo) :
                   dotamatchesinfo[i][1] = dotamatches[j].match_id

\* A catalog row is there, after the teammates rows of two distinct matches.
C5_Witness ==
    /\ tblheroesinfo # <<>>
    /\ Len(dotamatchesinfo) = 2
    /\ dotamatchesinfo[1][1] # dotamatchesinfo[2][1]

\* The match identifiers the two history queries returned.
FetchedIds == {ExpectedMatchRows[i].match_id : i \in 1..Len(ExpectedMatchRows)}

RowsOfMatch(m) == {i \in 1..Len(dotamatchesinfo) : dotamatchesinfo[i][1] = m}

CatalogRows ==
    LET resp == Answer(api.heroes)
    IN [i \in 1..Len(resp) |-> [id |-> resp[i].id, name |-> resp[i].name]]

\* The rows of complete runs: after the first run each table holds the run's
\* rows once, after the second run over the same responses twice.
RunsAppendExactly ==
    pc = "done" =>
        LET once == ~rerun
            half == Len(dotamatchesinfo) \div 2
        IN /\ dotamatches = IF once THEN ExpectedMatchRows
                            ELSE ExpectedMatchRows \o ExpectedMatchRows
           /\ tblheroesinfo = IF once THEN CatalogRows ELSE CatalogRows \o CatalogRows
           /\ \A m \in FetchedIds :
                  Cardinality(RowsOfMatch(m)) = IF once THEN 1 ELSE 2
           /\ Len(dotamatchesinfo) =
                  Cardinality(FetchedIds) * (IF once THEN 1 ELSE 2)
           /\ ~once => SubSeq(dotamatchesinfo, 1, half)
                           = SubSeq(dotamatchesinfo, half + 1, 2 * half)

\* No step updates or deletes a row: every table only grows at its end.
AppendOnly ==
    /\ IsPrefix(dotamatches, dotamatches')
    /\ IsPrefix(dotamatchesinfo, dotamatchesinfo')
    /\ IsPrefix(tblheroesinfo, tblheroesinfo')

\* C6: a complete run appends exactly one match row per returned match
\* object, tagged with its query's outcome value, one teammates row per
\* distinct match identifier and one catalog row per catalog entry, and no
\* row is ever updated or deleted; two complete runs over the same responses
\* leave every row twice.
C6_AppendOnlyCounts == [](RunsAppendExactly) /\ [][AppendOnly]_vars

\* The second run is complete; one match was returned by both queries.
C6_Witness ==
    /\ pc = "done"
    /\ rerun
    /\ Len(dotamatches) = 4
    /\ Len(dotamatchesinfo) = 2
    /\ Len(tblheroesinfo) = 4

\* ------------------------------------------------------------------ scraper
HeroKey == <<"Hero">>

\* rolestring.count(glyph)
Count(text, tok) == Cardinality({i \in 1..Len(text) : text[i] = tok})

\* rolestring.replace(glyph, "")
Remove(text, tok) == SelectSeq(text, LAMBDA t : t # tok)

RECURSIVE LStrip(_)
LStrip(text) ==
    IF text # <<>> /\ Head(text) = Blank THEN LStrip(Tail(text)) ELSE text

RECURSIVE RStrip(_)
RStrip(text) ==
    IF text # <<>> /\ text[Len(text)] = Blank
    THEN RStrip(SubSeq(text, 1, Len(text) - 1))
    ELSE text

\* str.strip(): leading and trailing blanks go, inner ones stay.
Strip(text) == RStrip(LStrip(text))

Level(rolestring) == Count(rolestring, Glyph)

Role(rolestring) == Strip(Remove(rolestring, Glyph))

\* heroattributes[role].update({level: []}) or heroattributes[role] = {level: []}:
\* either way heroattributes[role][level] is an empty list afterwards.
NewLevel(attrs, role, level) ==
    IF DictHas(attrs, role)
    THEN DictSet(attrs, role, DictSet(DictGet(attrs, role), level, <<>>))
    ELSE DictSet(attrs, role, <<<<level, <<>>>>>>)

\* for hero in ...find_all("a"): heroattributes[role][level] += [hero["title"]]
RECURSIVE AddHeroes(_, _, _, _)
AddHeroes(attrs, role, level, links) ==
    IF links = <<>> THEN attrs
    ELSE LET levels == DictGet(attrs, role)
             names == DictGet(levels, level) \o <<Head(links)>>
         IN AddHeroes(DictSet(attrs, role, DictSet(levels, level, names)),
                      role, level, Tail(links))

\* The body of "for hero in heroattributes[role][level]": the first row of
\* the hero gets dfrow[role] = level, a hero without a row gets a new one.
PivotHero(df, hero, role, level) ==
    IF \E i \in 1..Len(df) : DictGet(df[i], HeroKey) = hero
    THEN LET first == CHOOSE i \in 1..Len(df) :
                         /\ DictGet(df[i], HeroKey) = hero
                         /\ \A j \in 1..(i - 1) : DictGet(df[j], HeroKey) # hero
         IN [df EXCEPT ![first] = DictSet(df[first], role, level)]
    ELSE Append(df, <<<<HeroKey, hero>>, <<role, level>>>>)

RECURSIVE PivotNames(_, _, _, _)
PivotNames(df, names, role, level) ==
    IF names = <<>> THEN df
    ELSE PivotNames(PivotHero(df, Head(names), role, level), Tail(names), role, level)

RECURSIVE PivotLevels(_, _, _)
PivotLevels(df, levels, role) ==
    IF levels = <<>> THEN df
    ELSE PivotLevels(PivotNames(df, Head(levels)[2], role, Head(levels)[1]),
                     Tail(levels), role)

\* for role in heroattributes: for level in ...: for hero in ...
RECURSIVE PivotRoles(_, _)
PivotRoles(df, attrs) ==
    IF attrs = <<>> THEN df
    ELSE PivotRoles(PivotLevels(df, Head(attrs)[2], Head(attrs)[1]), Tail(attrs))

\* totalrolelist += [role] for every role of heroattributes.
DictKeys(d) == [i \in 1..Len(d) |-> d[i][1]]

\* A fill that allocates nothing.
ZeroFillRowSkipped(dfrow, roles) == dfrow

\* for role in totalrolelist: if role not in dfrow: dfrow[role] = 0
RECURSIVE ZeroFillRow(_, _)
ZeroFillRow(dfrow, roles) ==
    IF roles = <<>> THEN dfrow
    ELSE ZeroFillRow(IF DictHas(dfrow, Head(roles)) THEN dfrow
                     ELSE DictSet(dfrow, Head(roles), 0),
                     Tail(roles))

\* pd.DataFrame(list of dicts): the columns are the keys of the rows in the
\* order in which they are first met, row after row.
RECURSIVE Columns(_, _)
Columns(df, acc) ==
    IF df = <<>> THEN acc
    ELSE LET keys == DictKeys(Head(df))
             new == SelectSeq(keys, LAMBDA k : \A i \in 1..Len(acc) : acc[i] # k)
         IN Columns(Tail(df), acc \o new)

\* to_csv writes a value as text: a name as it is, a missing value as the
\* empty text, a number in decimal, with ".0" in a column that has a missing
\* value (pandas turns such a column to float).
Cell(df, dfrow, col) ==
    IF ~DictHas(dfrow, col) THEN <<>>
    ELSE IF col = HeroKey THEN DictGet(dfrow, col)
    ELSE IF \E i \in 1..Len(df) : ~DictHas(df[i], col)
         THEN <<ToString(DictGet(dfrow, col)), ".0">>
         ELSE <<ToString(DictGet(dfrow, col))>>

\* df.to_csv(index=False): the header line, then one line per row.
CsvLines(df) ==
    LET cols == Columns(df, <<>>)
    IN <<cols>> \o [i \in 1..Len(df) |-> [c \in 1..Len(cols) |-> Cell(df, df[i], cols[c])]]

\* A file opened for appending.
WriteFileAppend(old, lines) == old \o lines

\* to_csv opens the file for writing: the old content is gone.
WriteFile(old, lines) == lines

InitScraper ==
    /\ page \in Pages
    /\ spc = IF page = <<>> THEN "pivot" ELSE "scan"
    /\ thpos = 1
    /\ heroattributes = <<>>
    /\ dfheroattributes = <<>>
    /\ totalrolelist = <<>>
    /\ csv = <<>>
    /\ prevcsv = {}
    /\ pc = "off"
    /\ rerun = FALSE
    /\ api = [matches |-> [w \in {0, 1} |-> {}],
              detail  |-> [m \in MatchIds |-> {}],
              heroes  |-> {}]
    /\ requests = <<>>
    /\ winpos = 1
    /\ matches = <<>>
    /\ mpos = 1
    /\ matchdict = <<>>
    /\ dpos = 1
    /\ matchinfo = <<>>
    /\ heroidlist = <<>>
    /\ heroesinfo = <<>>
    /\ hpos = 1
    /\ dotamatches = <<>>
    /\ dotamatchesinfo = <<>>
    /\ tblheroesinfo = <<>>

\* One iteration of "for roleheader in soup.find_all('th')".
ScanHeader ==
    /\ spc = "scan"
    /\ LET rolestring == page[thpos].text
           level == Level(rolestring)
           role == Role(rolestring)
       IN heroattributes' =
              AddHeroes(NewLevel(heroattributes, role, level), role, level,
                        page[thpos].links)
    /\ thpos' = thpos + 1
    /\ spc' = IF thpos < Len(page) THEN "scan" ELSE "pivot"
    /\ UNCHANGED <<page, dfheroattributes, totalrolelist, csv, prevcsv>>
    /\ UNCHANGED importerVars

\* The loop over heroattributes that builds dfheroattributes and totalrolelist.
Pivot ==
    /\ spc = "pivot"
    /\ totalrolelist' = DictKeys(heroattributes)
    /\ dfheroattributes' = PivotRoles(<<>>, heroattributes)
    /\ spc' = "fill"
    /\ UNCHANGED <<page, thpos, heroattributes, csv, prevcsv>>
    /\ UNCHANGED importerVars

\* The loop that allocates a zero to every role a row does not have.
ZeroFill ==
    /\ spc = "fill"
    /\ dfheroattributes' = [i \in 1..Len(dfheroattributes) |->
                               ZeroFillRow(dfheroattributes[i], totalrolelist)]
    /\ spc' = "export"
    /\ UNCHANGED <<page, thpos, heroattributes, totalrolelist, csv, prevcsv>>
    /\ UNCHANGED importerVars

\* pd.DataFrame(dfheroattributes).to_csv("dotaheroroles.csv", index=False)
Export ==
    /\ spc = "export"
    /\ csv' = WriteFile(csv, CsvLines(dfheroattributes))
    /\ spc' = "done"
    /\ UNCHANGED <<page, thpos, heroattributes, dfheroattributes, totalrolelist, prevcsv>>
    /\ UNCHANGED importerVars

\* The script is started again on the unchanged page: its variables start
\* afresh, the file of the previous run is still there.
ScrapeAgain ==
    /\ spc = "done"
    /\ prevcsv' = {csv}
    /\ spc' = IF page = <<>> THEN "pivot" ELSE "scan"
    /\ thpos' = 1
    /\ heroattributes' = <<>>
    /\ dfheroattributes' = <<>>
    /\ totalrolelist' = <<>>
    /\ UNCHANGED <<page, csv>>
    /\ UNCHANGED importerVars

NextScraper == ScanHeader \/ Pivot \/ ZeroFill \/ Export \/ ScrapeAgain

SpecScraper == InitScraper /\ [][NextScraper]_vars

\* -------------------------------------------------- properties of the scraper
\* The roles of the header cells in the order in which they are first seen.
RECURSIVE FirstSeen(_, _)
FirstSeen(cells, acc) ==
    IF cells = <<>> THEN acc
    ELSE LET r == Role(Head(cells).text)
         IN FirstSeen(Tail(cells),
                      IF \E i \in 1..Len(acc) : acc[i] = r THEN acc ELSE Append(acc, r))

ObservedRoles == {Role(page[i].text) : i \in 1..Len(page)}

Linked(cell, hero) == \E p \in 1..Len(cell.links) : cell.links[p] = hero

\* The hero is linked under some header cell of the role.
LinkedUnder(hero, role) ==
    \E i \in 1..Len(page) : Role(page[i].text) = role /\ Linked(page[i], hero)

\* The data lines of the exported file, and the columns with a given name.
DataLines == 2..Len(csv)

ColumnsNamed(name) == {c \in 1..Len(csv[1]) : csv[1][c] = name}

LinesOf(hero) == {l \in DataLines : csv[l][1] = hero}

\* C7: for every header cell with role r and level n and every hero h linked
\* in its data cell, the output has exactly one row for h, and when h is
\* linked under no header of role r with another level, the row has n in
\* column r; for any sequence of header cells, several cells with the same
\* role and level included.
C7_PivotComplete ==
    spc = "done" =>
        \A i \in 1..Len(page) : \A p \in 1..Len(page[i].links) :
            LET h == page[i].links[p]
                r == Role(page[i].text)
                n == Level(page[i].text)
            IN /\ Cardinality(LinesOf(h)) = 1
               /\ (\A j \in 1..Len(page) :
                       (Role(page[j].text) = r /\ Level(page[j].text) # n)
                           => ~Linked(page[j], h))
                      => \A l \in LinesOf(h) : \A c \in ColumnsNamed(r) :
                             csv[l][c] = <<ToString(n)>>

\* C8: in the exported table the first column is the hero name and the
\* other columns are the role names in the order in which the roles were
\* first seen in the header cells (stated for tables with a hero row).
C8_ColumnOrder ==
    (spc = "done" /\ Len(csv) > 1) => csv[1] = <<HeroKey>> \o FirstSeen(page, <<>>)

NumberTexts == {<<ToString(n)>> : n \in 0..3}

\* C9: every hero row of the exported table has a value, never absent and
\* never null, in the column of every role observed on the page, and a hero
\* never linked under any header of role Y has exactly 0 in column Y.
C9_ZeroFill ==
    spc = "done" =>
        \A l \in DataLines : \A r \in ObservedRoles :
            /\ Cardinality(ColumnsNamed(r)) = 1
            /\ \A c \in ColumnsNamed(r) :
                   /\ csv[l][c] \in NumberTexts
                   /\ ~LinkedUnder(csv[l][1], r) => csv[l][c] = <<"0">>

\* A hero listed under one of two observed roles only: its line has a level
\* and a filled zero.
C9_Witness ==
    /\ spc = "done"
    /\ Cardinality(ObservedRoles) = 2
    /\ \E l \in DataLines : \E r, y \in ObservedRoles :
           /\ LinkedUnder(csv[l][1], r)
           /\ ~LinkedUnder(csv[l][1], y)
           /\ \E c \in ColumnsNamed(y) : csv[l][c] = <<"0">>
           /\ \E c \in ColumnsNamed(r) : csv[l][c] = <<"3">>

====
